---------------------------- MODULE Spec2Model ----------------------------
(***************************************************************************)
(* In-memory B-tree (src/main.cpp): BTree<K = int, V = int, B, Compare =   *)
(* default_compare<int>>.  Nodes live in a heap of cells addressed by node *)
(* ids (pointers), 0 is nullptr.  Arrays keep the source's 0-based slots.  *)
(***************************************************************************)
EXTENDS Integers, Sequences, FiniteSets, TLC

(* ------------------------------ bounds -------------------------------- *)
MaxKey == 7
MaxUpdates == 1
MaxB == 3

Keys == 1..MaxKey
Bs == 2..MaxB
LoopFuel == MaxKey + 1
MaxNodes == 2 * MaxKey + 4
NodeIds == 1..MaxNodes

(* -------------------------- program constants ------------------------- *)
FOUND == 65536
GO_DOWN == 16777216
FOUND_MASK == FOUND - 1
GO_DOWN_MASK == GO_DOWN - 1
UINT16 == 65536
INT_MAX == 2147483647
INT_MIN == (-INT_MAX) - 1
nullptr == 0
Indet == 0

VARIABLES B, heap, allocated, root, ref, pc, b, result, ca, cb, cres

vars == <<B, heap, allocated, root, ref, pc, b, result, ca, cb, cres>>

(* ------------------------------ comparator ---------------------------- *)
(* int a - b: the exact difference when it fits the int, else the value    *)
(* the two's complement machine produces (the difference modulo 2^32).     *)
SubOverflows(x, y) ==
    \/ (y > 0 /\ x < INT_MIN + y)
    \/ (y < 0 /\ x > INT_MAX + y)

WrapSub(x, y) ==
    IF y > 0 /\ x < INT_MIN + y
    THEN ((x - INT_MIN) + (INT_MAX - y)) + 1
    ELSE IF y < 0 /\ x > INT_MAX + y
         THEN ((x - INT_MAX) + (INT_MIN - y)) - 1
         ELSE x - y

default_compare(x, y) == WrapSub(x, y)

comp(x, y) == default_compare(x, y)

(* -------------------------------- nodes ------------------------------- *)
KeySlots == 0..(2 * B - 2)
ChildSlots(IsInternal) == IF IsInternal THEN 0..(2 * B - 1) ELSE {}

(* new BTreeNode<K, V, IsInternal, Compare, B>: arrays indeterminate,      *)
(* parent = nullptr, usage = 0, parent_idx = 0.                            *)
NewNode(IsInternal) ==
    [IsInternal |-> IsInternal,
     keys       |-> [i \in KeySlots |-> Indet],
     values     |-> [i \in KeySlots |-> Indet],
     children   |-> [i \in ChildSlots(IsInternal) |-> Indet],
     parent     |-> nullptr,
     usage      |-> 0,
     parent_idx |-> 0]

FreeCell ==
    [IsInternal |-> FALSE, keys |-> <<>>, values |-> <<>>, children |-> <<>>,
     parent |-> nullptr, usage |-> 0, parent_idx |-> 0]

U16(x) == x % UINT16

(* flag & FOUND, res & FOUND_MASK, res & GO_DOWN_MASK on LocFlag values    *)
HasFound(flag) == (flag \div FOUND) % 2 = 1
FoundIdx(flag) == flag % FOUND
DownIdx(flag) == flag % GO_DOWN

RECURSIVE linear_search_from(_, _, _)
linear_search_from(n, key, i) ==
    IF i < n.usage
    THEN LET res == comp(key, n.keys[i])
         IN  IF res < 0 THEN GO_DOWN + i
             ELSE IF res = 0 THEN FOUND + i
             ELSE linear_search_from(n, key, i + 1)
    ELSE GO_DOWN + n.usage

(* linear_search that reports an equal key as the place to go down         *)
linear_search_never_found(n, key) ==
    LET res == linear_search_from(n, key, 0)
    IN  IF HasFound(res) THEN GO_DOWN + FoundIdx(res) ELSE res

linear_search(n, key) == linear_search_from(n, key, 0)

(* member that reports a miss instead of descending into the child         *)
member_no_descent(h, n, key) == HasFound(linear_search(h[n], key))

RECURSIVE member(_, _, _)
member(h, n, key) ==
    LET flag == linear_search(h[n], key)
    IN  IF HasFound(flag) THEN TRUE
        ELSE IF h[n].IsInternal
             THEN member(h, h[n].children[DownIdx(flag)], key)
             ELSE FALSE

(* ------------------------------ iterator ------------------------------ *)
Iter(idx, node) == [idx |-> idx, node |-> node]

end == Iter(0, nullptr)

(* operator== that compares the slots only                                 *)
IterEq_slots_only(x, y) == x.idx = y.idx

IterEq(x, y) == x.idx = y.idx /\ x.node = y.node
IterNe(x, y) == x.idx # y.idx \/ x.node # y.node

RECURSIVE min(_, _)
min(h, n) ==
    IF h[n].IsInternal THEN min(h, h[n].children[0]) ELSE Iter(0, n)

(* max that descends into the child left of the last one                   *)
RECURSIVE max_wrong_child(_, _)
max_wrong_child(h, n) ==
    IF h[n].IsInternal
    THEN max_wrong_child(h, h[n].children[h[n].usage - 1])
    ELSE Iter(U16(h[n].usage - 1), n)

RECURSIVE max(_, _)
max(h, n) ==
    IF h[n].IsInternal
    THEN max(h, h[n].children[h[n].usage])
    ELSE Iter(U16(h[n].usage - 1), n)

key_at(h, n, i) == h[n].keys[i]
value_at(h, n, i) == h[n].values[i]

Deref(h, x) == <<key_at(h, x.node, x.idx), value_at(h, x.node, x.idx)>>

RECURSIVE pred_climb(_, _)
pred_climb(h, node) ==
    IF h[node].parent # nullptr /\ h[node].parent_idx = 0
    THEN pred_climb(h, h[node].parent)
    ELSE node

(* predecessor that, after the climb, keeps the child's index as the slot  *)
predecessor_no_decrement(h, n, idx) ==
    IF h[n].IsInternal
    THEN max(h, h[n].children[idx])
    ELSE IF idx # 0
         THEN Iter(U16(idx - 1), n)
         ELSE LET node == pred_climb(h, n)
              IN  IF h[node].parent # nullptr
                  THEN Iter(h[node].parent_idx, h[node].parent)
                  ELSE Iter(0, nullptr)

predecessor(h, n, idx) ==
    IF h[n].IsInternal
    THEN max(h, h[n].children[idx])
    ELSE IF idx # 0
         THEN Iter(U16(idx - 1), n)
         ELSE LET node == pred_climb(h, n)
              IN  IF h[node].parent # nullptr
                  THEN Iter(U16(h[node].parent_idx - 1), h[node].parent)
                  ELSE Iter(0, nullptr)

RECURSIVE succ_climb(_, _)
succ_climb(h, node) ==
    IF h[node].parent # nullptr
       /\ h[node].parent_idx = h[h[node].parent].usage
    THEN succ_climb(h, h[node].parent)
    ELSE node

(* successor whose leaf test is idx < usage                                *)
successor_off_by_one(h, n, idx) ==
    IF h[n].IsInternal
    THEN min(h, h[n].children[idx + 1])
    ELSE IF idx < h[n].usage
         THEN Iter(U16(idx + 1), n)
         ELSE LET node == succ_climb(h, n)
              IN  IF h[node].parent # nullptr
                  THEN Iter(h[node].parent_idx, h[node].parent)
                  ELSE Iter(0, nullptr)

successor(h, n, idx) ==
    IF h[n].IsInternal
    THEN min(h, h[n].children[idx + 1])
    ELSE IF idx < h[n].usage - 1
         THEN Iter(U16(idx + 1), n)
         ELSE LET node == succ_climb(h, n)
              IN  IF h[node].parent # nullptr
                  THEN Iter(h[node].parent_idx, h[node].parent)
                  ELSE Iter(0, nullptr)

begin(h, r) == IF r # nullptr THEN min(h, r) ELSE end


(* ------------------------------ the heap ------------------------------ *)
(* A machine state m holds heap, allocated and root: the cells, the set of *)
(* cells handed out by new and not yet given back by delete, and           *)
(* BTree::root.  It also keeps the books of one call: the cells new handed *)
(* out (created) and delete took back (released), one entry per split()    *)
(* and per adopt(), the number of writes of BTree::root, and the faults    *)
(* met: an assertion that failed, an array slot outside its array, a cell  *)
(* used or released after its release.                                     *)
Machine(h, al, r) ==
    [heap |-> h, allocated |-> al, root |-> r,
     created |-> <<>>, released |-> <<>>, splits |-> <<>>, adopts |-> <<>>,
     root_writes |-> 0, faults |-> {}]

Fault(m, what) == [m EXCEPT !.faults = @ \cup {what}]

(* a read or write of fields of the cells S                                *)
Use(m, S) ==
    IF S \subseteq m.allocated THEN m ELSE Fault(m, "use_after_release")

new_id(m) ==
    CHOOSE i \in NodeIds \ m.allocated :
        \A j \in NodeIds \ m.allocated : i <= j

new(m, IsInternal) ==
    [m EXCEPT !.heap[new_id(m)] = NewNode(IsInternal),
              !.allocated = @ \cup {new_id(m)},
              !.created = Append(@, new_id(m))]

(* delete p: ~BTreeNode releases children[0..usage] of an internal node    *)
(* whose usage is not zero, then the cell itself is given back.            *)
RECURSIVE delete(_, _)
RECURSIVE delete_children(_, _, _)
delete_children(m, n, i) ==
    IF i <= m.heap[n].usage
    THEN delete_children(delete(m, m.heap[n].children[i]), n, i + 1)
    ELSE m

(* ~BTreeNode without the test of usage: a node emptied by split() takes   *)
(* the child left in its slot 0 with it                                    *)
delete_unguarded(m, n) ==
    IF n = nullptr THEN m
    ELSE IF n \notin m.allocated THEN Fault(m, "double_release")
    ELSE LET m1 == IF m.heap[n].IsInternal
                   THEN delete_children(m, n, 0)
                   ELSE m
         IN  [m1 EXCEPT !.heap[n] = FreeCell,
                        !.allocated = @ \ {n},
                        !.released = Append(@, n)]

delete(m, n) ==
    IF n = nullptr THEN m
    ELSE IF n \notin m.allocated THEN Fault(m, "double_release")
    ELSE LET m1 == IF m.heap[n].IsInternal /\ m.heap[n].usage # 0
                   THEN delete_children(m, n, 0)
                   ELSE m
         IN  [m1 EXCEPT !.heap[n] = FreeCell,
                        !.allocated = @ \ {n},
                        !.released = Append(@, n)]

(* move_backward that stops one element short of the end                   *)
move_backward_short(arr, position, usage) ==
    [i \in DOMAIN arr |->
        IF position < i /\ i < usage THEN arr[i - 1] ELSE arr[i]]

(* std::move_backward(arr + position, arr + usage, arr + usage + 1)        *)
move_backward(arr, position, usage) ==
    [i \in DOMAIN arr |->
        IF position < i /\ i <= usage THEN arr[i - 1] ELSE arr[i]]

(* memmove that moves one pointer too few                                  *)
memmove_up_one_short(arr, position, count) ==
    [i \in DOMAIN arr |->
        IF position + 1 <= i /\ i < position + count
        THEN arr[i - 1] ELSE arr[i]]

(* std::memmove(children + position + 1, children + position, count)       *)
memmove_up(arr, position, count) ==
    [i \in DOMAIN arr |->
        IF position + 1 <= i /\ i < position + 1 + count
        THEN arr[i - 1] ELSE arr[i]]

(* the re-stamping loop of split, lines 238-243                            *)
RECURSIVE split_restamp(_, _, _, _)
split_restamp(h, l, r, i) ==
    IF i < B
    THEN LET lc == h[l].children[i]
             h1 == [h EXCEPT ![lc].parent = l, ![lc].parent_idx = U16(i)]
             rc == h1[r].children[i]
             h2 == [h1 EXCEPT ![rc].parent = r, ![rc].parent_idx = U16(i)]
         IN  split_restamp(h2, l, r, i + 1)
    ELSE h

(* split_left that keeps the middle pair in the left half as well          *)
split_left_keeps_middle(this) ==
    [NewNode(this.IsInternal) EXCEPT
        !.usage = U16(B),
        !.parent = this.parent,
        !.keys = [i \in KeySlots |->
                    IF i < B THEN this.keys[i] ELSE Indet],
        !.values = [i \in KeySlots |->
                    IF i < B THEN this.values[i] ELSE Indet],
        !.children = [i \in ChildSlots(this.IsInternal) |->
                    IF i < B THEN this.children[i] ELSE Indet]]

(* the node l of split(): usage, parent, keys[0..B-1), values[0..B-1) and, *)
(* in an internal node, children[0..B) of the node that splits             *)
split_left(this) ==
    [NewNode(this.IsInternal) EXCEPT
        !.usage = U16(B - 1),
        !.parent = this.parent,
        !.keys = [i \in KeySlots |->
                    IF i < B - 1 THEN this.keys[i] ELSE Indet],
        !.values = [i \in KeySlots |->
                    IF i < B - 1 THEN this.values[i] ELSE Indet],
        !.children = [i \in ChildSlots(this.IsInternal) |->
                    IF i < B THEN this.children[i] ELSE Indet]]

(* split_right that moves the values from values + B - 1                   *)
split_right_values_shifted(this) ==
    [NewNode(this.IsInternal) EXCEPT
        !.usage = U16(B - 1),
        !.parent = this.parent,
        !.keys = [i \in KeySlots |->
                    IF i < this.usage - B THEN this.keys[B + i] ELSE Indet],
        !.values = [i \in KeySlots |->
                    IF i < this.usage - B THEN this.values[(B + i) - 1]
                    ELSE Indet],
        !.children = [i \in ChildSlots(this.IsInternal) |->
                    IF i < B THEN this.children[B + i] ELSE Indet]]

(* the node r of split(): keys[B..usage), values[B..usage), children[B..2B) *)
split_right(this) ==
    [NewNode(this.IsInternal) EXCEPT
        !.usage = U16(B - 1),
        !.parent = this.parent,
        !.keys = [i \in KeySlots |->
                    IF i < this.usage - B THEN this.keys[B + i] ELSE Indet],
        !.values = [i \in KeySlots |->
                    IF i < this.usage - B THEN this.values[B + i] ELSE Indet],
        !.children = [i \in ChildSlots(this.IsInternal) |->
                    IF i < B THEN this.children[B + i] ELSE Indet]]

(* SplitResult plus the machine state split() leaves behind                *)
split(m, n) ==
    LET this == m.heap[n]
        m0 == IF this.usage = 2 * B - 1
              THEN Use(m, {n}) ELSE Fault(m, "assert_split")
        m1 == new(m0, this.IsInternal)
        l == new_id(m0)
        m2 == new(m1, this.IsInternal)
        r == new_id(m1)
        h3 == [m2.heap EXCEPT ![l] = split_left(this),
                              ![r] = split_right(this),
                              ![n].usage = 0]
        h4 == IF this.IsInternal THEN split_restamp(h3, l, r, 0) ELSE h3
        m4 == IF this.IsInternal
              THEN Use(m2, {this.children[i] : i \in 0..(B - 1)})
              ELSE m2
    IN  [m |-> [m4 EXCEPT !.heap = h4,
                          !.splits = Append(@, [node |-> n, before |-> this,
                                                l |-> l, r |-> r,
                                                left |-> h4[l],
                                                right |-> h4[r],
                                                key |-> this.keys[B - 1],
                                                value |-> this.values[B - 1]])],
         l |-> l, r |-> r,
         key |-> this.keys[B - 1], value |-> this.values[B - 1]]

(* the new internal root, returned with the machine state                  *)
singleton(m, l, r, key, value) ==
    LET node == new_id(m)
        m1 == new(Use(m, {l, r}), TRUE)
        h1 == [m1.heap EXCEPT
                 ![node].usage = 1,
                 ![node].values[0] = value,
                 ![node].keys[0] = key,
                 ![node].children[0] = l]
        h2 == [h1 EXCEPT ![l].parent_idx = 0]
        h3 == [h2 EXCEPT ![l].parent = node]
        h4 == [h3 EXCEPT ![node].children[1] = r]
        h5 == [h4 EXCEPT ![r].parent_idx = 1]
        h6 == [h5 EXCEPT ![r].parent = node]
    IN  [m |-> [m1 EXCEPT !.heap = h6], node |-> node]

(* re-stamping that covers the two new children only and leaves the        *)
(* shifted ones with their old index                                       *)
adopt_restamp_new_only(h, n, i, bound) ==
    LET h1 == [h EXCEPT ![h[n].children[i]].parent_idx = U16(i)]
    IN  [h1 EXCEPT ![h[n].children[i + 1]].parent_idx = U16(i + 1)]

(* the re-stamping loop of adopt, lines 307-309                            *)
RECURSIVE adopt_restamp(_, _, _, _)
adopt_restamp(h, n, i, bound) ==
    IF i < bound
    THEN adopt_restamp([h EXCEPT ![h[n].children[i]].parent_idx = U16(i)],
                       n, i + 1, bound)
    ELSE h

(* replace_root that builds the new root and does not store it             *)
replace_root_not_stored(sr) ==
    LET m1 == delete(sr.m, sr.m.root)
        sg == singleton(m1, sr.l, sr.r, sr.key, sr.value)
    IN  sg.m

(* delete *root; *root = singleton(...)                                    *)
replace_root(sr) ==
    LET m1 == delete(sr.m, sr.m.root)
        sg == singleton(m1, sr.l, sr.r, sr.key, sr.value)
    IN  [sg.m EXCEPT !.root = sg.node, !.root_writes = @ + 1]

(* adopt that hangs the two halves under a node of their own in the place  *)
(* of the split child, instead of taking them in                           *)
adopt_grow_down(m, n, l, r, key, value, position) ==
    LET m1 == delete(m, m.heap[n].children[position])
        sg == singleton(m1, l, r, key, value)
        h1 == [sg.m.heap EXCEPT ![n].children[position] = sg.node,
                                ![sg.node].parent = n,
                                ![sg.node].parent_idx = position]
    IN  [sg.m EXCEPT !.heap = h1]

RECURSIVE adopt(_, _, _, _, _, _, _)
adopt(m, n, l, r, key, value, position) ==
    LET this == m.heap[n]
        usage == this.usage
        vals1 == move_backward(this.values, position, usage)
        keys1 == move_backward(this.keys, position, usage)
        ch1 == memmove_up(this.children, position, (usage + 1) - position)
        m1 == [Use(m, {n}) EXCEPT ![ "heap" ][n].values = vals1,
                                  ![ "heap" ][n].keys = keys1,
                                  ![ "heap" ][n].children = ch1]
        m2 == delete(m1, m1.heap[n].children[position])
        h3 == [m2.heap EXCEPT ![n].children[position] = l]
        h4 == [h3 EXCEPT ![l].parent = n]
        h5 == [h4 EXCEPT ![n].children[position + 1] = r]
        h6 == [h5 EXCEPT ![r].parent = n]
        h7 == adopt_restamp(h6, n, position, usage + 2)
        h8 == [h7 EXCEPT ![n].values[position] = value,
                         ![n].keys[position] = key,
                         ![n].usage = U16(usage + 1)]
        m7 == Use(m2, {n, l, r}
                      \cup {h6[n].children[i] : i \in position..(usage + 1)})
        m8 == [m7 EXCEPT !.heap = h8,
                         !.adopts = Append(@, [node |-> n, before |-> this,
                                               after |-> h8[n],
                                               l |-> l, r |-> r,
                                               position |-> position])]
    IN  IF usage \notin KeySlots \/ (usage + 1) \notin ChildSlots(TRUE)
        THEN Fault(m, "out_of_bounds")
        ELSE IF h8[n].usage = 2 * B - 1
        THEN LET sr == split(m8, n)
             IN  IF h8[n].parent # nullptr
                 THEN adopt(sr.m, h8[n].parent, sr.l, sr.r,
                            sr.key, sr.value, h8[n].parent_idx)
                 ELSE replace_root(sr)
        ELSE m8

Some(v) == [has_value |-> TRUE, value |-> v]
nullopt == [has_value |-> FALSE, value |-> 0]

(* overwrite that reads the slot after it has written it                   *)
overwrite_returns_new(m, n, i, value) ==
    [m |-> [m EXCEPT ![ "heap" ][n].values[i] = value],
     ret |-> Some(value)]

(* the exact match of insert: V original = values[i]; values[i] = value;   *)
(* return {original}                                                       *)
overwrite(m, n, i, value) ==
    [m |-> [m EXCEPT ![ "heap" ][n].values[i] = value],
     ret |-> Some(m.heap[n].values[i])]

(* BTreeNode::insert: the machine state it leaves and the returned         *)
(* std::optional<V>                                                        *)
RECURSIVE node_insert(_, _, _, _)
node_insert(m, n, key, value) ==
    LET this == m.heap[n]
        res == linear_search(this, key)
    IN  IF ~ (this.usage < 2 * B)
        THEN [m |-> Fault(m, "assert_linear_search"), ret |-> nullopt]
        ELSE IF HasFound(res)
        THEN overwrite(m, n, FoundIdx(res), value)
        ELSE LET position == DownIdx(res)
             IN  IF this.IsInternal
                 THEN node_insert(m, this.children[position], key, value)
                 ELSE IF this.usage \notin KeySlots
                 THEN [m |-> Fault(m, "out_of_bounds"), ret |-> nullopt]
                 ELSE
                   LET vals1 == move_backward(this.values, position, this.usage)
                       keys1 == move_backward(this.keys, position, this.usage)
                       h1 == [m.heap EXCEPT
                                ![n].values = [vals1 EXCEPT ![position] = value],
                                ![n].keys = [keys1 EXCEPT ![position] = key],
                                ![n].usage = U16(this.usage + 1)]
                       m1 == [m EXCEPT !.heap = h1]
                   IN  IF h1[n].usage = 2 * B - 1
                       THEN LET sr == split(m1, n)
                            IN  [m |-> IF h1[n].parent # nullptr
                                       THEN adopt(sr.m, h1[n].parent,
                                                  sr.l, sr.r,
                                                  sr.key, sr.value,
                                                  h1[n].parent_idx)
                                       ELSE replace_root(sr),
                                 ret |-> nullopt]
                       ELSE [m |-> m1, ret |-> nullopt]

(* BTree::insert                                                           *)
tree_insert(m, key, value) ==
    IF m.root = nullptr
    THEN LET node == new_id(m)
             m1 == new(m, FALSE)
             h1 == [m1.heap EXCEPT ![node].usage = 1,
                                   ![node].keys[0] = key,
                                   ![node].values[0] = value]
         IN  [m |-> [m1 EXCEPT !.heap = h1, !.root = node,
                               !.root_writes = @ + 1],
              ret |-> nullopt]
    ELSE node_insert(m, m.root, key, value)


(* ------------------------------ operations ---------------------------- *)
(* The driver, after main(): a phase of insert calls, then one read-only   *)
(* call on the tree (the range-for loop, min_key or max_key) that ends the *)
(* run.  ref is the reference the driver keeps of what it inserted: the    *)
(* value last inserted for each key, 0 for a key never inserted.  The tree *)
(* only copies values, so the driver makes them tell: the first insert of  *)
(* key k stores k (main inserts (k, k)), every repeated insert of k stores *)
(* the previous value plus MaxKey.                                         *)
NoResult ==
    [op |-> "none", outcome |-> "none", null_deref |-> FALSE, ret |-> nullopt,
     faults |-> {}]
NoCmp == [done |-> FALSE, trapped |-> FALSE, value |-> 0]

NextValue(key) == IF ref[key] = 0 THEN key ELSE ref[key] + MaxKey

RECURSIVE UpdatesUpTo(_)
UpdatesUpTo(k) ==
    IF k = 0 THEN 0
    ELSE UpdatesUpTo(k - 1)
         + (IF ref[k] = 0 THEN 0 ELSE (ref[k] - k) \div MaxKey)

Updates == UpdatesUpTo(MaxKey)

TreeInit ==
    /\ B \in Bs
    /\ heap = [n \in NodeIds |-> FreeCell]
    /\ allocated = {}
    /\ root = nullptr
    /\ ref = [k \in Keys |-> 0]
    /\ pc = "insert"
    /\ b = <<>>
    /\ result = NoResult

Init ==
    /\ TreeInit
    /\ ca = 0 /\ cb = 0 /\ cres = NoCmp

(* How a call that met the faults F ends.  A failed assert aborts the      *)
(* process (DEBUG_MODE is defined).  A write outside an array, or a use of *)
(* a released cell, is undefined: the process is ended by the memory       *)
(* protection or runs on over damaged memory.  The model follows no run    *)
(* past a fault.                                                           *)
Asserts == {"assert_linear_search", "assert_split"}

InsertOutcomes(F) ==
    IF F = {} THEN {"returned"}
    ELSE IF F \cap Asserts # {} /\ F \subseteq Asserts THEN {"aborted"}
    ELSE {"segfault", "returned"}

Insert(key, value) ==
    /\ pc = "insert"
    /\ ref[key] # 0 => Updates < MaxUpdates
    /\ LET out == tree_insert(Machine(heap, allocated, root), key, value)
       IN  /\ heap' = out.m.heap
           /\ allocated' = out.m.allocated
           /\ root' = out.m.root
           /\ result' \in {[op |-> "insert", outcome |-> o,
                             null_deref |-> FALSE, ret |-> out.ret,
                             faults |-> out.m.faults] :
                            o \in InsertOutcomes(out.m.faults)}
           /\ pc' = IF out.m.faults = {} THEN "insert" ELSE "done"
    /\ ref' = [ref EXCEPT ![key] = value]
    /\ UNCHANGED <<B, b, ca, cb, cres>>

(* The positions it takes in for (it = begin(); it != end(); ++it), and    *)
(* whether the loop ended; a loop longer than any tree of the model is cut *)
(* off and reported as not ended.                                          *)
(* ++it: the iterator takes node and idx of the successor and is returned; *)
(* it++: the successor is returned and the iterator is left as it is.      *)
(* Both give the iterator after the call (it) and the value returned (ret). *)
pre_increment(h, x) ==
    LET res == successor(h, x.node, x.idx)
    IN  [it |-> Iter(res.idx, res.node), ret |-> Iter(res.idx, res.node)]

post_increment(h, x) ==
    [it |-> x, ret |-> successor(h, x.node, x.idx)]

RECURSIVE walk(_, _, _, _)
walk(h, x, path, fuel) ==
    IF ~ IterNe(x, end) THEN [path |-> path, ended |-> TRUE]
    ELSE IF fuel = 0 THEN [path |-> path, ended |-> FALSE]
    ELSE walk(h, pre_increment(h, x).it, Append(path, x), fuel - 1)

(* the same loop advanced by it++                                          *)
RECURSIVE walk_postfix(_, _, _, _)
walk_postfix(h, x, path, fuel) ==
    IF ~ IterNe(x, end) THEN [path |-> path, ended |-> TRUE]
    ELSE IF fuel = 0 THEN [path |-> path, ended |-> FALSE]
    ELSE walk_postfix(h, post_increment(h, x).it, Append(path, x), fuel - 1)

range_for(h, r) == walk(h, begin(h, r), <<>>, LoopFuel)

(* for (auto i : test) b.push_back(i.first);                               *)
RangeFor ==
    /\ pc = "insert"
    /\ LET w == range_for(heap, root)
       IN  /\ b' = [i \in 1..Len(w.path) |-> Deref(heap, w.path[i])[1]]
           /\ result' = [op |-> "range_for",
                         outcome |-> IF w.ended THEN "returned" ELSE "diverged",
                         null_deref |-> FALSE, ret |-> nullopt,
                         faults |-> {}]
    /\ pc' = "done"
    /\ UNCHANGED <<B, heap, allocated, root, ref, ca, cb, cres>>

(* root->min() and root->max() through a null root are undefined: the call *)
(* reads the vtable pointer at address 0, which ends the process with a    *)
(* segmentation fault on a build that keeps the load, or hands back an     *)
(* indeterminate key on one that does not.                                 *)
NullCallOutcomes(op) ==
    { [op |-> op, outcome |-> "segfault", null_deref |-> TRUE, ret |-> nullopt,
       faults |-> {}],
      [op |-> op, outcome |-> "returned", null_deref |-> TRUE,
       ret |-> Some(Indet), faults |-> {}] }

min_key(h, r) == LET iter == min(h, r) IN key_at(h, iter.node, iter.idx)

max_key(h, r) == LET iter == max(h, r) IN key_at(h, iter.node, iter.idx)

MinKey ==
    /\ pc = "insert"
    /\ IF root = nullptr
       THEN result' \in NullCallOutcomes("min_key")
       ELSE result' = [op |-> "min_key", outcome |-> "returned",
                       null_deref |-> FALSE, ret |-> Some(min_key(heap, root)),
                       faults |-> {}]
    /\ pc' = "done"
    /\ UNCHANGED <<B, heap, allocated, root, ref, b, ca, cb, cres>>

MaxKey_ ==
    /\ pc = "insert"
    /\ IF root = nullptr
       THEN result' \in NullCallOutcomes("max_key")
       ELSE result' = [op |-> "max_key", outcome |-> "returned",
                       null_deref |-> FALSE, ret |-> Some(max_key(heap, root)),
                       faults |-> {}]
    /\ pc' = "done"
    /\ UNCHANGED <<B, heap, allocated, root, ref, b, ca, cb, cres>>

Next ==
    \/ \E key \in Keys : Insert(key, NextValue(key))
    \/ RangeFor
    \/ MinKey
    \/ MaxKey_

Spec == Init /\ [][Next]_vars

(* ------------------- every branching factor accepted ------------------ *)
(* The static_asserts of BTreeNode accept every B with B > 0 and           *)
(* 2 * B < FOUND; Bs above leaves B = 1 out.                               *)
AcceptedBs == {n \in 1..MaxB : n > 0 /\ 2 * n < FOUND}

AcceptedInit ==
    /\ B \in AcceptedBs
    /\ heap = [n \in NodeIds |-> FreeCell]
    /\ allocated = {}
    /\ root = nullptr
    /\ ref = [k \in Keys |-> 0]
    /\ pc = "insert"
    /\ b = <<>>
    /\ result = NoResult
    /\ ca = 0 /\ cb = 0 /\ cres = NoCmp

AcceptedSpec == AcceptedInit /\ [][Next]_vars

(* ----------------------- the tree's whole life ------------------------ *)
(* ~BTree at the end of main: delete root.  The destructor leaves the root *)
(* member as it is.                                                        *)
Destroy ==
    /\ pc = "insert"
    /\ LET m == delete(Machine(heap, allocated, root), root)
       IN  /\ heap' = m.heap
           /\ allocated' = m.allocated
           /\ result' = [op |-> "destroy", outcome |-> "returned",
                         null_deref |-> FALSE, ret |-> nullopt,
                         faults |-> m.faults]
    /\ pc' = "destroyed"
    /\ UNCHANGED <<B, root, ref, b, ca, cb, cres>>

LifeNext ==
    \/ \E key \in Keys : Insert(key, NextValue(key))
    \/ Destroy

LifeSpec == Init /\ [][LifeNext]_vars

(* ------------------- the two increments of iterator ------------------- *)
(* A loop over the tree advanced by it++ :                                 *)
(* for (auto it = test.begin(); it != test.end(); it++), the body pushing  *)
(* the key under it onto b.                                                *)
PostfixLoop ==
    /\ pc = "insert"
    /\ LET w == walk_postfix(heap, begin(heap, root), <<>>, LoopFuel)
       IN  /\ b' = [i \in 1..Len(w.path) |-> Deref(heap, w.path[i])[1]]
           /\ result' = [op |-> "postfix_loop",
                         outcome |-> IF w.ended THEN "returned" ELSE "diverged",
                         null_deref |-> FALSE, ret |-> nullopt,
                         faults |-> {}]
    /\ pc' = "done"
    /\ UNCHANGED <<B, heap, allocated, root, ref, ca, cb, cres>>

IterNext ==
    \/ \E key \in Keys : Insert(key, NextValue(key))
    \/ RangeFor
    \/ PostfixLoop

IterSpec == Init /\ [][IterNext]_vars

(* ------------------------ the comparator alone ------------------------ *)
(* default_compare<int> called on two keys taken near the ends of int.     *)
(* The subtraction of two ints that does not fit the int is undefined: the *)
(* build either wraps it (two's complement) or, built to trap on signed    *)
(* overflow, ends the process.                                             *)
EdgeInts ==
    {INT_MIN, INT_MIN + 1, INT_MIN + 2, -2, -1, 0, 1, 2,
     INT_MAX - 2, INT_MAX - 1, INT_MAX}

CompareOutcomes(x, y) ==
    IF SubOverflows(x, y)
    THEN { [done |-> TRUE, trapped |-> FALSE, value |-> default_compare(x, y)],
           [done |-> TRUE, trapped |-> TRUE, value |-> 0] }
    ELSE { [done |-> TRUE, trapped |-> FALSE, value |-> default_compare(x, y)] }

CmpInit ==
    /\ TreeInit
    /\ ca \in EdgeInts
    /\ cb \in EdgeInts
    /\ cres = NoCmp

Compare ==
    /\ ~ cres.done
    /\ cres' \in CompareOutcomes(ca, cb)
    /\ UNCHANGED <<B, heap, allocated, root, ref, pc, b, result, ca, cb>>

CmpNext == Compare

CmpSpec == CmpInit /\ [][CmpNext]_vars

(* ------------------------- what the claims read ----------------------- *)
RefKeys == {k \in Keys : ref[k] # 0}

RECURSIVE Ascending(_)
Ascending(S) ==
    IF S = {} THEN <<>>
    ELSE LET least == CHOOSE x \in S : \A y \in S : x <= y
         IN  <<least>> \o Ascending(S \ {least})

RECURSIVE TreeNodes(_, _)
TreeNodes(h, n) ==
    IF n = nullptr THEN {}
    ELSE IF h[n].IsInternal
         THEN {n} \cup UNION {TreeNodes(h, h[n].children[i]) : i \in 0..h[n].usage}
         ELSE {n}

TreePositions ==
    {Iter(i, n) : <<n, i>> \in
        UNION {{<<n, i>> : i \in 0..(heap[n].usage - 1)} : n \in TreeNodes(heap, root)}}

(* the keys held in the slots of the nodes of the tree                     *)
DistinctKeys == {key_at(heap, p.node, p.idx) : p \in TreePositions}

RECURSIVE SubtreeKeys(_, _)
SubtreeKeys(h, n) ==
    {h[n].keys[i] : i \in 0..(h[n].usage - 1)}
    \cup (IF h[n].IsInternal
          THEN UNION {SubtreeKeys(h, h[n].children[i]) : i \in 0..h[n].usage}
          ELSE {})

Traversal == range_for(heap, root)

TraversedPairs ==
    LET w == Traversal
    IN  [i \in 1..Len(w.path) |-> Deref(heap, w.path[i])]

TraversedKeys ==
    LET w == Traversal
    IN  [i \in 1..Len(w.path) |-> key_at(heap, w.path[i].node, w.path[i].idx)]

Count == Len(Traversal.path)

RootIsInternal == root # nullptr /\ heap[root].IsInternal
HeightThree == RootIsInternal /\ heap[heap[root].children[0]].IsInternal

(* C1: the traversal from begin() by increments ends, and yields exactly   *)
(* the distinct keys inserted, each once, in strictly ascending comparator *)
(* order; on the empty tree begin() equals end().                          *)
C1_OrderedTraversal ==
    LET ks == TraversedKeys
        sorted == Ascending(RefKeys)
    IN  /\ Traversal.ended
        /\ ks = sorted
        /\ \A i \in 1..(Len(sorted) - 1) : comp(ks[i], ks[i + 1]) < 0
        /\ (root = nullptr => IterEq(begin(heap, root), end))
        /\ (result.op = "range_for" =>
                result.outcome = "returned" /\ b = sorted)

C1_Witness ==
    /\ result.op = "range_for"
    /\ HeightThree
    /\ Len(b) = MaxKey

(* C2: member(k) at the root is true for every key inserted, in a leaf or  *)
(* promoted into an internal node, and false for every key never inserted. *)
C2_Membership ==
    root # nullptr =>
        \A k \in Keys \cup {0, MaxKey + 1} :
            member(heap, root, k) <=> (k \in RefKeys)

C2_Witness ==
    /\ RootIsInternal
    /\ \E k \in Keys : k \notin RefKeys /\ ~ member(heap, root, k)
    /\ \E k \in RefKeys : HasFound(linear_search(heap[root], k))

(* C3: insert of a key already present returns the value of the most       *)
(* recent earlier insert of it and keeps the number of distinct keys;      *)
(* insert of a new key returns no value and adds exactly one key; neither  *)
(* is an error.                                                            *)
C3_InsertReturn ==
    [][\A k \in Keys :
          ref'[k] # ref[k] =>
              /\ result'.op = "insert"
              /\ result'.outcome = "returned"
              /\ IF ref[k] # 0
                 THEN /\ result'.ret = Some(ref[k])
                      /\ DistinctKeys' = DistinctKeys
                      /\ Cardinality(TreePositions') = Cardinality(TreePositions)
                 ELSE /\ result'.ret = nullopt
                      /\ DistinctKeys' = DistinctKeys \cup {k}
                      /\ Cardinality(DistinctKeys') = Cardinality(DistinctKeys) + 1
                      /\ Cardinality(TreePositions') = Cardinality(TreePositions) + 1]_vars

C3_Witness ==
    /\ result.op = "insert"
    /\ result.ret.has_value
    /\ RootIsInternal
    /\ Count >= 2 * B - 1

(* C4: the (key, value) pairs dereferenced from begin() to end() are the   *)
(* pairs of the last-write-wins map of the same inserts.                   *)
C4_RefinesMap ==
    LET sorted == Ascending(RefKeys)
    IN  /\ Traversal.ended
        /\ TraversedPairs =
              [i \in 1..Len(sorted) |-> <<sorted[i], ref[sorted[i]]>>]

C4_Witness ==
    /\ RootIsInternal
    /\ \E n \in TreeNodes(heap, root) :
          /\ heap[n].IsInternal
          /\ \E i \in 0..(heap[n].usage - 1) : heap[n].values[i] # heap[n].keys[i]
    /\ \E n \in TreeNodes(heap, root) :
          /\ ~ heap[n].IsInternal
          /\ heap[n].parent_idx > 0

(* C5: on a non-empty tree min() is the first and max() the last key of    *)
(* the traversal, the smallest and the largest key inserted.               *)
C5_MinMax ==
    root # nullptr =>
        LET ks == TraversedKeys
            lo == min_key(heap, root)
            hi == max_key(heap, root)
        IN  /\ Len(ks) >= 1
            /\ lo = ks[1]
            /\ hi = ks[Len(ks)]
            /\ \A k \in RefKeys : lo <= k /\ k <= hi
            /\ lo \in RefKeys /\ hi \in RefKeys
            /\ (result.op = "min_key" => result.ret = Some(lo))
            /\ (result.op = "max_key" => result.ret = Some(hi))

C5_Witness ==
    /\ result.op = "max_key"
    /\ HeightThree
    /\ result.ret = Some(MaxKey)

(* C6: predecessor undoes successor at every position but the last, and   *)
(* successor undoes predecessor at every position but the first, in leaves *)
(* and in internal nodes at any depth.                                     *)
C6_SuccPredInverse ==
    root # nullptr =>
        \A p \in TreePositions :
            /\ ~ IterEq(p, max(heap, root)) =>
                  LET s == successor(heap, p.node, p.idx)
                  IN  /\ s.node # nullptr
                      /\ IterEq(predecessor(heap, s.node, s.idx), p)
            /\ ~ IterEq(p, min(heap, root)) =>
                  LET q == predecessor(heap, p.node, p.idx)
                  IN  /\ q.node # nullptr
                      /\ IterEq(successor(heap, q.node, q.idx), p)

C6_Witness ==
    /\ HeightThree
    /\ \E p \in TreePositions :
          /\ heap[p.node].IsInternal
          /\ heap[p.node].parent # nullptr
          /\ ~ heap[successor(heap, p.node, p.idx).node].IsInternal

(* C7: min() or max() on the empty tree ends in an assertion failure: it   *)
(* returns no key and does not dereference the absent root.                *)
C7_EmptyMinMaxFailsFast ==
    (root = nullptr /\ result.op \in {"min_key", "max_key"}) =>
        /\ result.outcome = "assert_failed"
        /\ ~ result.null_deref

(* C8, as claimed: end() equals no position that holds an element, the     *)
(* successor of the position of the largest key equals end(), and the      *)
(* before-begin sentinel that predecessor returns at the smallest key does *)
(* not equal end().                                                        *)
C8_BeforeBeginIsNotEnd ==
    root # nullptr =>
        /\ \A p \in TreePositions : ~ IterEq(end, p) /\ IterNe(end, p)
        /\ LET last == max(heap, root)
           IN  IterEq(successor(heap, last.node, last.idx), end)
        /\ LET first == min(heap, root)
           IN  ~ IterEq(predecessor(heap, first.node, first.idx), end)

(* C8, amended: end() equals no position that holds an element, the       *)
(* successor of the position of the largest key equals end(), and the      *)
(* before-begin sentinel that predecessor returns at the smallest key is   *)
(* the same (no node, slot 0) as the end sentinel, so it equals end().     *)
C8_SentinelsCoincide ==
    root # nullptr =>
        /\ \A p \in TreePositions : ~ IterEq(end, p) /\ IterNe(end, p)
        /\ LET last == max(heap, root)
           IN  /\ IterEq(successor(heap, last.node, last.idx), end)
               /\ ~ IterNe(successor(heap, last.node, last.idx), end)
        /\ LET first == min(heap, root)
           IN  /\ predecessor(heap, first.node, first.idx) = Iter(0, nullptr)
               /\ IterEq(predecessor(heap, first.node, first.idx), end)

C8_Witness ==
    /\ HeightThree
    /\ \E p \in TreePositions : p.idx = 0 /\ heap[p.node].IsInternal
    /\ predecessor(heap, min(heap, root).node, min(heap, root).idx).node = nullptr

(* C9: the default comparator orders the whole range of int: its result is *)
(* negative iff a < b, zero iff a = b and positive iff a > b.              *)
C9_ComparatorTotalOrder ==
    cres.done =>
        /\ ~ cres.trapped
        /\ (cres.value < 0 <=> ca < cb)
        /\ (cres.value = 0 <=> ca = cb)
        /\ (cres.value > 0 <=> ca > cb)

(* C10: in every node the occupied keys are strictly ascending, every key  *)
(* in the subtree of child i of an internal node lies strictly between     *)
(* keys[i-1] and keys[i] of that node (no bound at the two ends), and no   *)
(* key sits in two slots of the tree.                                      *)
C10_SearchOrder ==
    /\ \A n \in TreeNodes(heap, root) :
          /\ \A i \in 0..(heap[n].usage - 2) :
                /\ heap[n].keys[i] < heap[n].keys[i + 1]
                /\ comp(heap[n].keys[i], heap[n].keys[i + 1]) < 0
          /\ heap[n].IsInternal =>
                \A i \in 0..heap[n].usage :
                    \A k \in SubtreeKeys(heap, heap[n].children[i]) :
                        /\ i > 0 => heap[n].keys[i - 1] < k
                        /\ i < heap[n].usage => k < heap[n].keys[i]
    /\ Cardinality(TreePositions) = Cardinality(DistinctKeys)

C10_Witness ==
    /\ result.op = "insert"
    /\ RootIsInternal
    /\ heap[root].usage >= 2
    /\ \E i \in 0..heap[root].usage : heap[heap[root].children[i]].usage >= 2

(* -------------------------- shape of the tree ------------------------- *)
(* the depths at which the leaves below n sit, n itself at depth d; a      *)
(* child slot that holds no cell of the heap counts as depth -1            *)
RECURSIVE LeafDepths(_, _, _)
LeafDepths(h, n, d) ==
    IF n \notin NodeIds THEN {-1}
    ELSE IF h[n].IsInternal
         THEN UNION {LeafDepths(h, h[n].children[i], d + 1) : i \in 0..h[n].usage}
         ELSE {d}

(* levels on the way from n down its first children to a leaf              *)
RECURSIVE Height(_, _)
Height(h, n) ==
    IF n \notin NodeIds THEN 0
    ELSE IF h[n].IsInternal THEN 1 + Height(h, h[n].children[0])
    ELSE 1

InternalNodes == {n \in TreeNodes(heap, root) : heap[n].IsInternal}

(* C11: after every completed insert all leaves are at the same depth, and *)
(* the children of an internal node are all internal or all leaves; also   *)
(* after a chain of splits that ends in a new root.                        *)
C11_LeavesSameDepth ==
    root # nullptr =>
        /\ LeafDepths(heap, root, 0) = {Height(heap, root) - 1}
        /\ \A n \in InternalNodes :
              \A i, j \in 0..heap[n].usage :
                  /\ heap[n].children[i] \in NodeIds
                  /\ heap[heap[n].children[i]].IsInternal
                       = heap[heap[n].children[j]].IsInternal

(* the insert whose chain of splits went through a leaf and an internal    *)
(* node and put a new root on top                                          *)
C11_Witness ==
    /\ result.op = "insert"
    /\ HeightThree
    /\ heap[root].usage = 1


(* C12: after every completed insert the root has no parent, and child i   *)
(* of every internal node n, for i in 0..n.usage, has parent n and         *)
(* parent_idx i: the children an adoption shifted, the children handed to  *)
(* the halves of a split internal node, the two children of a new root.    *)
C12_ParentLinks ==
    root # nullptr =>
        /\ heap[root].parent = nullptr
        /\ \A n \in InternalNodes :
              \A i \in 0..heap[n].usage :
                  /\ heap[n].children[i] \in NodeIds
                  /\ heap[heap[n].children[i]].parent = n
                  /\ heap[heap[n].children[i]].parent_idx = i

(* a new root over the two halves of a split internal node, the right half *)
(* holding the children it was handed                                      *)
C12_Witness ==
    /\ result.op = "insert"
    /\ HeightThree
    /\ heap[root].usage = 1
    /\ LET right == heap[root].children[1]
       IN  /\ heap[right].parent = root
           /\ heap[right].parent_idx = 1
           /\ heap[heap[right].children[heap[right].usage]].parent = right


(* --------------------------- one insert call -------------------------- *)
(* the call insert(k, NextValue(k)) made in the present state: the machine *)
(* state it leaves, with the books of the call, and what it returns        *)
InsertCall(k) == tree_insert(Machine(heap, allocated, root), k, NextValue(k))

Range(seq) == {seq[i] : i \in 1..Len(seq)}

(* the halves and the promoted pair of the split e                         *)
SplitHalves(e) ==
    /\ e.before.usage = 2 * B - 1
    /\ e.l # e.r
    /\ e.l \in NodeIds /\ e.r \in NodeIds
    /\ e.left.usage = B - 1
    /\ e.right.usage = B - 1
    /\ e.left.IsInternal = e.before.IsInternal
    /\ e.right.IsInternal = e.before.IsInternal
    /\ \A i \in 0..(B - 2) :
          /\ e.left.keys[i] = e.before.keys[i]
          /\ e.left.values[i] = e.before.values[i]
          /\ e.right.keys[i] = e.before.keys[B + i]
          /\ e.right.values[i] = e.before.values[B + i]
    /\ e.key = e.before.keys[B - 1]
    /\ e.value = e.before.values[B - 1]
    /\ e.before.IsInternal =>
          \A i \in 0..(B - 1) :
              /\ e.left.children[i] = e.before.children[i]
              /\ e.right.children[i] = e.before.children[B + i]

(* the adoption a takes the halves of the split e in at the place of the   *)
(* split node                                                              *)
AdoptsSplit(a, e) ==
    /\ a.node = e.before.parent
    /\ a.position = e.before.parent_idx
    /\ a.before.children[a.position] = e.node
    /\ a.after.usage = a.before.usage + 1
    /\ a.after.children[a.position] = e.l
    /\ a.after.children[a.position + 1] = e.r
    /\ a.after.keys[a.position] = e.key
    /\ a.after.values[a.position] = e.value
    /\ \A i \in 0..(a.before.usage - 1) :
          LET j == IF i < a.position THEN i ELSE i + 1
          IN  /\ a.after.keys[j] = a.before.keys[i]
              /\ a.after.values[j] = a.before.values[i]
    /\ \A i \in 0..a.before.usage :
          /\ i < a.position => a.after.children[i] = a.before.children[i]
          /\ i > a.position => a.after.children[i + 1] = a.before.children[i]

(* the new root over the halves of the split e                             *)
NewRootOver(h, r, e) ==
    /\ r \in NodeIds \ {e.l, e.r}
    /\ h[r].IsInternal
    /\ h[r].usage = 1
    /\ h[r].keys[0] = e.key
    /\ h[r].values[0] = e.value
    /\ h[r].children[0] = e.l
    /\ h[r].children[1] = e.r

SplitsAsSpecified(k) ==
    LET out == InsertCall(k).m
        S == out.splits
        A == out.adopts
    IN  /\ heap' = out.heap
        /\ \A n \in TreeNodes(out.heap, out.root) : out.heap[n].usage < 2 * B - 1
        /\ Len(out.created) = Cardinality(Range(out.created))
        /\ \A j \in 1..Len(S) : {S[j].l, S[j].r} \subseteq Range(out.created)
        /\ root # nullptr =>
              Len(out.created) = 2 * Len(S) + (Len(S) - Len(A))
        /\ \A j \in 1..Len(A) :
              A[j].after.usage = 2 * B - 1 => \E i \in 1..Len(S) : S[i].node = A[j].node
        /\ Len(A) \in {Len(S), Len(S) - 1}
        /\ \A j \in 1..Len(S) :
              /\ SplitHalves(S[j])
              /\ IF S[j].before.parent # nullptr
                 THEN j <= Len(A) /\ AdoptsSplit(A[j], S[j])
                 ELSE j = Len(S) /\ Len(A) = j - 1
                      /\ NewRootOver(out.heap, out.root, S[j])

(* C13: a node splits exactly when the call brings its usage to 2B-1; the  *)
(* split makes two new nodes of B-1 keys each, left with the former        *)
(* keys[0..B-1), right with the former keys[B..2B-1), and promotes the     *)
(* former keys[B-1]/values[B-1]; of an internal node children[0..B) go     *)
(* left and children[B..2B) right; the parent then has one more key and    *)
(* one more child, the halves at the former position and position+1, or a  *)
(* new root holds the promoted pair and the two halves.                    *)
C13_SplitLayout ==
    [][\A k \in Keys : ref'[k] # ref[k] => SplitsAsSpecified(k)]_vars

(* after the chain leaf split, internal split, new root at B = 2: every    *)
(* node of the tree holds B-1 keys                                         *)
C13_Witness ==
    /\ result.op = "insert"
    /\ HeightThree
    /\ \A n \in TreeNodes(heap, root) : heap[n].usage = B - 1


(* C14: for every B the static_asserts accept, every node has              *)
(* 0 <= usage <= 2B-1, no key, value or child slot outside the node's      *)
(* arrays is read or written, and the assertions usage < 2B of             *)
(* linear_search and usage == 2B-1 of split never fail.                    *)
C14_WithinArrays ==
    /\ \A n \in allocated : heap[n].usage \in 0..(2 * B - 1)
    /\ result.faults \cap ({"out_of_bounds"} \cup Asserts) = {}


RootWrittenAsSpecified(k) ==
    LET out == InsertCall(k).m
        S == out.splits
        reached == \E j \in 1..Len(S) : S[j].before.parent = nullptr
    IN  /\ heap' = out.heap
        /\ root' = out.root
        /\ root # nullptr =>
              /\ out.root_writes <= 1
              /\ out.root_writes = 1 <=> reached
              /\ reached =>
                    /\ S[Len(S)].node = root
                    /\ out.root \in Range(out.created)
                    /\ out.heap[out.root].IsInternal
                    /\ out.heap[out.root].usage = 1
                    /\ out.heap[out.root].children[0] = S[Len(S)].l
                    /\ out.heap[out.root].children[1] = S[Len(S)].r
                    /\ Height(out.heap, out.root) = Height(heap, root) + 1
              /\ ~ reached =>
                    /\ out.root = root
                    /\ Height(out.heap, out.root) = Height(heap, root)

(* C15: one insert on a non-empty tree writes BTree::root at most once,    *)
(* and exactly when the chain of splits reaches the node with no parent;   *)
(* the new root is then an internal node with one key and the two halves   *)
(* of the old root as its two children, and the height grows by one; in    *)
(* every other insert the root and the height stay.                        *)
C15_RootWrittenOnce ==
    [][\A k \in Keys : ref'[k] # ref[k] => RootWrittenAsSpecified(k)]_vars

(* the first split of the root: a leaf of 2B-1 keys became a root of one   *)
(* key over two leaves                                                     *)
C15_Witness ==
    /\ result.op = "insert"
    /\ RootIsInternal
    /\ ~ HeightThree
    /\ heap[root].usage = 1
    /\ Cardinality(RefKeys) = 2 * B - 1


ReleasesAsSpecified(k) ==
    LET out == InsertCall(k).m
        S == out.splits
    IN  /\ allocated' = out.allocated
        /\ out.faults \cap {"double_release", "use_after_release"} = {}
        /\ Len(out.released) = Len(S)
        /\ \A j \in 1..Len(S) :
              /\ out.released[j] = S[j].node
              /\ S[j].before.IsInternal =>
                    \A i \in 0..(2 * B - 1) :
                        S[j].before.children[i] \in out.allocated
        /\ Cardinality(out.allocated)
             = Cardinality(allocated) + Len(out.created) - Len(out.released)
        /\ out.allocated = TreeNodes(out.heap, out.root)

DestroyReleasesAll ==
    LET m == delete(Machine(heap, allocated, root), root)
    IN  /\ m.faults = {}
        /\ Len(m.released) = Cardinality(allocated)
        /\ Range(m.released) = allocated
        /\ allocated' = {}

(* C16: over inserts and the destruction of the tree every node allocated  *)
(* is released exactly once: an insert releases the nodes it split, each   *)
(* once and without the children they handed to their halves; after an     *)
(* insert the allocated nodes are exactly those reachable from the root;   *)
(* no node is used after its release; the destruction releases every       *)
(* allocated node once.                                                    *)
C16_ReleasedOnce ==
    [][/\ \A k \in Keys : ref'[k] # ref[k] => ReleasesAsSpecified(k)
       /\ pc' = "destroyed" => DestroyReleasesAll]_vars

(* the destruction of a tree of MaxKey keys, which has internal nodes      *)
C16_Witness ==
    /\ result.op = "destroy"
    /\ pc = "destroyed"
    /\ allocated = {}
    /\ Cardinality(RefKeys) = MaxKey


(* C17: for B >= 2, after every completed insert every node but the root   *)
(* holds B-1 to 2B-2 keys, the root 1 to 2B-2, and every internal node has *)
(* usage+1 children, all present and pairwise distinct, so a non-root      *)
(* internal node has at least B children.                                  *)
C17_Occupancy ==
    (B >= 2 /\ root # nullptr) =>
        \A n \in TreeNodes(heap, root) :
            /\ n = root => heap[n].usage \in 1..(2 * B - 2)
            /\ n # root => heap[n].usage \in (B - 1)..(2 * B - 2)
            /\ heap[n].IsInternal =>
                  /\ \A i \in 0..heap[n].usage :
                        heap[n].children[i] \in allocated
                  /\ \A i, j \in 0..heap[n].usage :
                        i # j => heap[n].children[i] # heap[n].children[j]
                  /\ n # root =>
                        Cardinality({heap[n].children[i] : i \in 0..heap[n].usage})
                          >= B

(* a root over a child at the least and a child at the greatest occupancy  *)
C17_Witness ==
    /\ result.op = "insert"
    /\ RootIsInternal
    /\ \E i, j \in 0..heap[root].usage :
          /\ heap[heap[root].children[i]].usage = B - 1
          /\ heap[heap[root].children[j]].usage = 2 * B - 2
          /\ i # j


(* the slot of the tree that holds the key k                               *)
SlotOf(k) == CHOOSE p \in TreePositions : key_at(heap, p.node, p.idx) = k

UpdateFrame(k) ==
    LET out == InsertCall(k).m
        p == SlotOf(k)
    IN  /\ heap' = [heap EXCEPT ![p.node].values[p.idx] = NextValue(k)]
        /\ allocated' = allocated
        /\ root' = root
        /\ out.created = <<>> /\ out.released = <<>>
        /\ out.splits = <<>> /\ out.adopts = <<>>
        /\ out.root_writes = 0

(* C18: an insert of a key already present changes the value stored for    *)
(* that key and nothing else: no node is created, split or released, the   *)
(* root stays, and keys, usage, children, parent and parent_idx of every   *)
(* node and the values of all other keys stay; in a leaf and in an         *)
(* internal node alike.                                                    *)
C18_UpdateFrame ==
    [][\A k \in Keys : (ref[k] # 0 /\ ref'[k] # ref[k]) => UpdateFrame(k)]_vars

(* the update of a key held by an internal node                            *)
C18_Witness ==
    /\ result.op = "insert"
    /\ result.ret.has_value
    /\ \E n \in InternalNodes : \E i \in 0..(heap[n].usage - 1) :
          /\ heap[n].values[i] > MaxKey
          /\ heap[n].values[i] = ref[heap[n].keys[i]]
          /\ result.ret.value = heap[n].keys[i]


(* C19: both increments step the iterator: after it++ as after ++it the    *)
(* iterator designates the successor of the position it designated, so a   *)
(* loop from begin() advanced by either form reaches end() after as many   *)
(* steps as the tree has distinct keys.                                    *)
C19_BothIncrementsAdvance ==
    /\ \A p \in TreePositions :
          /\ IterEq(pre_increment(heap, p).it, successor(heap, p.node, p.idx))
          /\ IterEq(post_increment(heap, p).it, successor(heap, p.node, p.idx))
    /\ result.op \in {"range_for", "postfix_loop"} =>
          /\ result.outcome = "returned"
          /\ Len(b) = Cardinality(RefKeys)

=============================================================================
